---- MODULE Spec2Model ----
(***************************************************************************)
(* Model of erickrf/ppdb: the TransformationDict trie with its middle-     *)
(* token index (ppdb.py), the module-level loader cache (load_ppdb) and    *)
(* the Boyer-Moore search function.                                        *)
(*                                                                         *)
(* A TransformationDict is modelled as the nested mapping it is: a         *)
(* function from tokens to pairs <<rule_set, sub-dictionary>>.  Python's   *)
(* in-place mutation through the cursor `d` becomes a functional update    *)
(* along the walked path.                                                  *)
(***************************************************************************)
EXTENDS Integers, Sequences, FiniteSets, TLC

VARIABLES
    self,       \* the root TransformationDict (token -> <<rule_set, dict>>)
    index,      \* self.index of the root (token -> set of <<before, after>>)
    added,      \* history: the (lhs, rhs) pairs passed to add so far
    pc,         \* "idle" or "returned" (a query result is held by the caller);
                \* in search: "search", "outer", "inner", "done"
    call,       \* the last query call [op, arg]
    ret,        \* its outcome: a value or a raised exception
    haystack,   \* search: the arguments
    needle,
    i,          \* search: the locals i and j
    j,
    char_table,     \* search: make_char_table(needle)
    offset_table,   \* search: make_offset_table(needle)
    ppdb_dict,  \* the module-level _ppdb_dict: None or a dictionary object
    nloads      \* history: dictionary objects created by load_ppdb so far

dictVars == <<self, index, added>>
searchVars == <<haystack, needle, i, j, char_table, offset_table>>
loaderVars == <<ppdb_dict, nloads>>
vars == <<self, index, added, pc, call, ret,
          haystack, needle, i, j, char_table, offset_table,
          ppdb_dict, nloads>>

----------------------------------------------------------------------------
\* Bounds

Tokens == {"a", "b"}
RhsSet == {<<"x">>, <<"y">>}

\* specification Spec: lhs lengths, distinct rules added, query lengths
MaxLhsLen == 3
MaxAdds == 2
MaxQueryLen == 2

\* specification SpecSearch: symbols and lengths of the two sequences
Alphabet == {"A", "B"}
MaxHaystackLen == 7
MaxNeedleLen == 4

\* specification SpecLoader: dictionary objects created
MaxLoads == 3

\* specification SpecPartial (one rhs, longer lhs)
MaxPartialLhsLen == 4
MaxPartialAdds == 2
MaxPartialLen == 2

RECURSIVE SeqsOfLen(_, _)
SeqsOfLen(S, n) ==
    IF n = 0 THEN {<<>>}
    ELSE {<<x>> \o s : x \in S, s \in SeqsOfLen(S, n - 1)}

SeqsUpTo(S, n) == UNION {SeqsOfLen(S, k) : k \in 0..n}

LhsSet == SeqsUpTo(Tokens, MaxLhsLen)
QuerySet == SeqsUpTo(Tokens, MaxQueryLen)
PartialLhsSet == SeqsUpTo(Tokens, MaxPartialLhsLen)
PartialSet == SeqsUpTo(Tokens, MaxPartialLen)

----------------------------------------------------------------------------
\* Python values

Value(v) == [kind |-> "value", value |-> v]
Raise(e) == [kind |-> "raise", exc |-> e]
None == [kind |-> "none"]
NoCall == [op |-> "none"]

\* TransformationDict(): no keys, and an empty index
EmptyDict == [t \in {} |-> <<{}, <<>>>>]
EmptyIndex == [t \in {} |-> {}]

\* tuple slices, 0-based as in Python: s[lo:hi] and s[lo:]
Slice(s, lo, hi) == SubSeq(s, lo + 1, IF hi > Len(s) THEN Len(s) ELSE hi)
SliceFrom(s, lo) == SubSeq(s, lo + 1, Len(s))

\* iteration over a dict's keys or a set's members; the order is the hash
\* table's and is fixed here by CHOOSE
RECURSIVE IterOrder(_)
IterOrder(S) ==
    IF S = {} THEN <<>>
    ELSE LET x == CHOOSE y \in S : TRUE
         IN  <<x>> \o IterOrder(S \ {x})

RECURSIVE Flatten(_)
Flatten(ss) == IF ss = <<>> THEN <<>> ELSE Head(ss) \o Flatten(Tail(ss))

----------------------------------------------------------------------------
\* TransformationDict.add

\* d[token] = (rule_set, new_d) / rebinding of an entry
SetItem(d, token, entry) ==
    [t \in (DOMAIN d) \cup {token} |-> IF t = token THEN entry ELSE d[t]]

\* variant: rule_set.add(rhs) executed inside the loop body, at every node
RECURSIVE add_walk_every_node(_, _, _, _)
add_walk_every_node(d, lhs, pos, rhs) ==
    LET token == lhs[pos + 1]
        entry == IF token \in DOMAIN d THEN d[token] ELSE <<{}, <<>>>>
    IN  IF pos = Len(lhs) - 1
        THEN [t \in (DOMAIN d) \cup {token} |->
                IF t = token THEN <<entry[1] \cup {rhs}, entry[2]>> ELSE d[t]]
        ELSE [t \in (DOMAIN d) \cup {token} |->
                IF t = token
                THEN <<entry[1] \cup {rhs},
                       add_walk_every_node(entry[2], lhs, pos + 1, rhs)>>
                ELSE d[t]]

\* the walk of `for i, token in enumerate(lhs)` from position i (0-based) in
\* dictionary d, followed by rule_set.add(rhs) at the last node
RECURSIVE add_walk(_, _, _, _)
add_walk(d, lhs, pos, rhs) ==
    LET token == lhs[pos + 1]
        entry == IF token \in DOMAIN d THEN d[token] ELSE <<{}, EmptyDict>>
    IN  IF pos = Len(lhs) - 1
        THEN SetItem(d, token, <<entry[1] \cup {rhs}, entry[2]>>)
        ELSE SetItem(d, token, <<entry[1], add_walk(entry[2], lhs, pos + 1, rhs)>>)

\* variant: `0 < i <= len(lhs) - 1`, the last token indexed too
InteriorPositions_with_last(lhs) ==
    {pos \in 0..(Len(lhs) - 1) : 0 < pos /\ pos <= Len(lhs) - 1}

\* the positions i that pass `0 < i < len(lhs) - 1`
InteriorPositions(lhs) == {pos \in 0..(Len(lhs) - 1) : 0 < pos /\ pos < Len(lhs) - 1}

\* self.index after the loop: index[token].add((before, after))
add_index(ix, lhs) ==
    LET new(t) == {<<Slice(lhs, 0, pos), SliceFrom(lhs, pos + 1)>> :
                        pos \in {k \in InteriorPositions(lhs) : lhs[k + 1] = t}}
        keys == (DOMAIN ix) \cup {lhs[pos + 1] : pos \in InteriorPositions(lhs)}
    IN  [t \in keys |-> (IF t \in DOMAIN ix THEN ix[t] ELSE {}) \cup new(t)]

add_dict(d, lhs, rhs) == IF Len(lhs) = 0 THEN d ELSE add_walk(d, lhs, 0, rhs)
add_ix(ix, lhs) == IF Len(lhs) = 0 THEN ix ELSE add_index(ix, lhs)

----------------------------------------------------------------------------
\* TransformationDict.__getitem__

\* isinstance(lhs, string_types) branch
getitem_str(d, token) ==
    IF token \in DOMAIN d THEN Value(d[token]) ELSE Value(<<{}, EmptyDict>>)

\* the loop over a tuple/list lhs; `bound` tells whether the local rule_set
\* has been assigned
RECURSIVE getitem_loop(_, _, _, _, _)
getitem_loop(d, lhs, k, bound, rule_set) ==
    IF k > Len(lhs)
    THEN IF bound THEN Value(<<rule_set, d>>) ELSE Raise("UnboundLocalError")
    ELSE IF lhs[k] \notin DOMAIN d
         THEN Value(<<{}, EmptyDict>>)
         ELSE getitem_loop(d[lhs[k]][2], lhs, k + 1, TRUE, d[lhs[k]][1])

getitem_seq(d, lhs) == getitem_loop(d, lhs, 1, FALSE, {})

get_rhs(d, lhs) ==
    LET r == getitem_seq(d, lhs)
    IN  IF r.kind = "raise" THEN r ELSE Value(r.value[1])

get_subdict(d, lhs) ==
    LET r == getitem_seq(d, lhs)
    IN  IF r.kind = "raise" THEN r ELSE Value(r.value[2])

----------------------------------------------------------------------------
\* TransformationDict.find_partial_expression

\* variant: a dictionary without keys yields one empty path
RECURSIVE find_all_paths_empty_path(_)
find_all_paths_empty_path(d) ==
    IF DOMAIN d = {} THEN << <<>> >>
    ELSE LET keys == IterOrder(DOMAIN d)
             under(key) ==
                LET below == find_all_paths_empty_path(d[key][2])
                IN  [n \in 1..Len(below) |-> <<key>> \o below[n]]
         IN  Flatten([n \in 1..Len(keys) |-> under(keys[n])])

RECURSIVE find_all_paths(_)
find_all_paths(d) ==
    LET keys == IterOrder(DOMAIN d)
        paths_under_key(key) ==
            LET below == find_all_paths(d[key][2])
                under == [n \in 1..Len(below) |-> <<key>> \o below[n]]
            IN  IF Len(under) = 0 THEN << <<key>> >> ELSE under
    IN  Flatten([n \in 1..Len(keys) |-> paths_under_key(keys[n])])

\* variant: the slice taken at len(sought_lhs_tail), a prefix test
accepts_prefix(tail, sought_lhs_tail) ==
    SubSeq(tail, 1, IF Len(sought_lhs_tail) > Len(tail)
                    THEN Len(tail) ELSE Len(sought_lhs_tail)) = sought_lhs_tail

\* the filter `tail[:len(sought_lhs_tail) + 1] == sought_lhs_tail`
accepts(tail, sought_lhs_tail) ==
    Slice(tail, 0, Len(sought_lhs_tail) + 1) = sought_lhs_tail

\* d = d[token][1] for each token of sought_lhs_tail
RECURSIVE descend(_, _)
descend(d, tokens) ==
    IF tokens = <<>> THEN d
    ELSE descend(getitem_str(d, Head(tokens)).value[2], Tail(tokens))

find_partial_expression(d, ix, partial) ==
    IF Len(partial) = 0 THEN Raise("IndexError")
    ELSE
    LET first_token == partial[1]
        sought_lhs_tail == SliceFrom(partial, 1)
    IN  IF first_token \notin DOMAIN ix THEN Value(<<>>)
        ELSE
        LET pairs == IterOrder(ix[first_token])
            lhs_heads == SelectSeq([n \in 1..Len(pairs) |-> pairs[n]],
                             LAMBDA p : accepts(p[2], sought_lhs_tail))
            contexts_for(lhs_head) ==
                LET node == getitem_seq(d, lhs_head).value[2]
                    dd == descend(getitem_str(node, first_token).value[2],
                                  sought_lhs_tail)
                    contexts_after == find_all_paths(dd)
                IN  [n \in 1..Len(contexts_after) |->
                        <<lhs_head, contexts_after[n]>>]
        IN  Value(Flatten([n \in 1..Len(lhs_heads) |->
                              contexts_for(lhs_heads[n][1])]))

\* The receiver after a query method has run.  __getitem__ tests `token in d`
\* before every read and returns a fresh pair on a miss; get_rhs, get_subdict
\* and find_partial_expression only read through it: no statement of theirs
\* assigns to a dictionary or to self.index.
\* variant: a lookup that inserts the keys it misses (setdefault-like)
RECURSIVE getitem_inserts(_, _)
getitem_inserts(d, lhs) ==
    IF lhs = <<>> THEN d
    ELSE LET token == Head(lhs)
             entry == IF token \in DOMAIN d THEN d[token] ELSE <<{}, <<>>>>
         IN  [t \in (DOMAIN d) \cup {token} |->
                IF t = token
                THEN <<entry[1], getitem_inserts(entry[2], Tail(lhs))>>
                ELSE d[t]]

getitem_leaves(d, lhs) == d
find_partial_leaves(d, partial) == d
find_partial_leaves_index(ix, partial) == ix

----------------------------------------------------------------------------
\* Operations on one dictionary

NoLoader ==
    /\ ppdb_dict = None
    /\ nloads = 0

NoSearch ==
    /\ haystack = <<>>
    /\ needle = <<>>
    /\ i = 0
    /\ j = 0
    /\ char_table = <<>>
    /\ offset_table = <<>>

Init ==
    /\ self = EmptyDict
    /\ index = EmptyIndex
    /\ added = {}
    /\ pc = "idle"
    /\ call = NoCall
    /\ ret = None
    /\ NoSearch
    /\ NoLoader

Add(lhs, rhs) ==
    /\ pc = "idle"
    /\ self' = add_dict(self, lhs, rhs)
    /\ index' = add_ix(index, lhs)
    /\ added' = added \cup {<<lhs, rhs>>}
    /\ UNCHANGED <<pc, call, ret>>
    /\ UNCHANGED <<searchVars, loaderVars>>

Query(op, arg, result, d, ix) ==
    /\ pc = "idle"
    /\ pc' = "returned"
    /\ call' = [op |-> op, arg |-> arg]
    /\ ret' = result
    /\ self' = d
    /\ index' = ix
    /\ UNCHANGED added
    /\ UNCHANGED <<searchVars, loaderVars>>

GetRhs(lhs) ==
    Query("get_rhs", lhs, get_rhs(self, lhs), getitem_leaves(self, lhs), index)
GetSubdict(lhs) ==
    Query("get_subdict", lhs, get_subdict(self, lhs),
          getitem_leaves(self, lhs), index)
GetItem(lhs) ==
    Query("getitem", lhs, getitem_seq(self, lhs),
          getitem_leaves(self, lhs), index)
GetItemStr(token) ==
    Query("getitem_str", <<token>>, getitem_str(self, token),
          getitem_leaves(self, <<token>>), index)
FindPartialExpression(partial) ==
    Query("find_partial_expression", partial,
          find_partial_expression(self, index, partial),
          find_partial_leaves(self, partial),
          find_partial_leaves_index(index, partial))

\* the caller takes the result and goes on
Return ==
    /\ pc = "returned"
    /\ pc' = "idle"
    /\ call' = NoCall
    /\ ret' = None
    /\ UNCHANGED <<self, index, added>>
    /\ UNCHANGED <<searchVars, loaderVars>>

\* the model stops adding once `limit` distinct rules are in the dictionary
MayAdd(lhs, rhs, limit) == Cardinality(added \cup {<<lhs, rhs>>}) <= limit

Next ==
    \/ pc = "idle" /\ \E lhs \in LhsSet, rhs \in RhsSet :
          MayAdd(lhs, rhs, MaxAdds) /\ Add(lhs, rhs)
    \/ \E lhs \in QuerySet : GetRhs(lhs)
    \/ \E lhs \in QuerySet : GetSubdict(lhs)
    \/ \E lhs \in QuerySet : GetItem(lhs)
    \/ \E token \in Tokens : GetItemStr(token)
    \/ \E partial \in QuerySet : FindPartialExpression(partial)
    \/ Return

Spec == Init /\ [][Next]_vars

NextPartial ==
    \/ pc = "idle" /\ \E lhs \in PartialLhsSet :
          MayAdd(lhs, <<"x">>, MaxPartialAdds) /\ Add(lhs, <<"x">>)
    \/ \E partial \in PartialSet : FindPartialExpression(partial)
    \/ Return

SpecPartial == Init /\ [][NextPartial]_vars

----------------------------------------------------------------------------
\* search (Boyer-Moore) and its tables; positions are 0-based as in the source

At(s, n) == s[n + 1]

\* s[n] with Python's index rule: negative n counts from the end
PyInRange(s, n) == -Len(s) <= n /\ n < Len(s)
PyAt(s, n) == IF n >= 0 THEN s[n + 1] ELSE s[Len(s) + n + 1]

Max(a, b) == IF a >= b THEN a ELSE b

\* table[k] = v on a dict
DictSet(table, k, v) ==
    [x \in (DOMAIN table) \cup {k} |-> IF x = k THEN v ELSE table[x]]

\* variant: distance counted from one past the end of needle
char_shift_plus_one(ndl, n) == Len(ndl) - n

\* the value stored by `table[needle[i]] = len(needle) - 1 - i`
char_shift(ndl, n) == Len(ndl) - 1 - n

\* for i in range(len(needle) - 1), from i = n
RECURSIVE char_table_loop(_, _, _)
char_table_loop(table, ndl, n) ==
    IF n >= Len(ndl) - 1 THEN table
    ELSE char_table_loop(DictSet(table, At(ndl, n), char_shift(ndl, n)),
                         ndl, n + 1)

make_char_table(ndl) == char_table_loop(<<>>, ndl, 0)

\* for i in range(p, len(needle)) with j running from 0
RECURSIVE is_prefix_loop(_, _, _)
is_prefix_loop(ndl, n, m) ==
    IF n >= Len(ndl) THEN 1
    ELSE IF At(ndl, n) # At(ndl, m) THEN 0
         ELSE is_prefix_loop(ndl, n + 1, m + 1)

is_prefix(ndl, p) == is_prefix_loop(ndl, p, 0)

\* for i in reversed(range(p + 1)) with j running down from len(needle) - 1
RECURSIVE suffix_length_loop(_, _, _, _)
suffix_length_loop(ndl, n, m, length) ==
    IF n < 0 THEN length
    ELSE IF At(ndl, n) = At(ndl, m)
         THEN suffix_length_loop(ndl, n - 1, m - 1, length + 1)
         ELSE length

suffix_length(ndl, p) == suffix_length_loop(ndl, p, Len(ndl) - 1, 0)

\* first loop of make_offset_table: for i in reversed(range(len(needle)))
RECURSIVE offset_first_loop(_, _, _, _)
offset_first_loop(table, ndl, n, last_prefix_position) ==
    IF n < 0 THEN table
    ELSE LET lpp == IF is_prefix(ndl, n + 1) = 1
                    THEN n + 1 ELSE last_prefix_position
         IN  offset_first_loop(Append(table, lpp - n + Len(ndl) - 1),
                               ndl, n - 1, lpp)

\* variant: the overlaid shift without the matched length
overlay_shift_without_slen(ndl, n, slen) == Len(ndl) - 1 - n

\* the value stored by `table[slen] = len(needle) - 1 - i + slen`
overlay_shift(ndl, n, slen) == Len(ndl) - 1 - n + slen

\* second loop of make_offset_table: for i in range(len(needle) - 1)
RECURSIVE offset_second_loop(_, _, _)
offset_second_loop(table, ndl, n) ==
    IF n >= Len(ndl) - 1 THEN table
    ELSE LET slen == suffix_length(ndl, n)
         IN  offset_second_loop(
                 [table EXCEPT ![slen + 1] = overlay_shift(ndl, n, slen)],
                 ndl, n + 1)

make_offset_table(ndl) ==
    offset_second_loop(
        offset_first_loop(<<>>, ndl, Len(ndl) - 1, Len(ndl)), ndl, 0)

\* char_table.get(haystack[i], -1)
char_table_get(table, symbol) ==
    IF symbol \in DOMAIN table THEN table[symbol] ELSE -1

SearchInit ==
    /\ self = EmptyDict
    /\ index = EmptyIndex
    /\ added = {}
    /\ haystack \in SeqsUpTo(Alphabet, MaxHaystackLen)
    /\ needle \in SeqsUpTo(Alphabet, MaxNeedleLen)
    /\ pc = "search"
    /\ call = [op |-> "search"]
    /\ ret = None
    /\ i = 0
    /\ j = 0
    /\ char_table = <<>>
    /\ offset_table = <<>>
    /\ NoLoader

\* lines 216-220: the empty needle, the two tables, i = len(needle) - 1
SearchStart ==
    /\ pc = "search"
    /\ IF Len(needle) = 0
       THEN /\ pc' = "done"
            /\ ret' = Value(0)
            /\ UNCHANGED <<i, char_table, offset_table>>
       ELSE /\ pc' = "outer"
            /\ char_table' = make_char_table(needle)
            /\ offset_table' = make_offset_table(needle)
            /\ i' = Len(needle) - 1
            /\ ret' = ret
    /\ UNCHANGED <<dictVars, loaderVars, call, haystack, needle, j>>

\* lines 221-222 and 230: the outer loop's test
SearchOuter ==
    /\ pc = "outer"
    /\ IF i < Len(haystack)
       THEN /\ pc' = "inner"
            /\ j' = Len(needle) - 1
            /\ ret' = ret
       ELSE /\ pc' = "done"
            /\ ret' = Value(-1)
            /\ j' = j
    /\ UNCHANGED <<dictVars, loaderVars, call, haystack, needle, i,
                   char_table, offset_table>>

\* lines 223-229: one comparison needle[j] == haystack[i]; a match steps
\* left or returns, a mismatch shifts
SearchCompare ==
    /\ pc = "inner"
    /\ IF ~PyInRange(haystack, i)
       THEN /\ pc' = "done"
            /\ ret' = Raise("IndexError")
            /\ UNCHANGED <<i, j>>
       ELSE IF At(needle, j) = PyAt(haystack, i)
       THEN IF j = 0
            THEN /\ pc' = "done"
                 /\ ret' = Value(i)
                 /\ UNCHANGED <<i, j>>
            ELSE /\ pc' = "inner"
                 /\ i' = i - 1
                 /\ j' = j - 1
                 /\ ret' = ret
       ELSE /\ pc' = "outer"
            /\ i' = i + Max(At(offset_table, Len(needle) - 1 - j),
                            char_table_get(char_table, PyAt(haystack, i)))
            /\ j' = j
            /\ ret' = ret
    /\ UNCHANGED <<dictVars, loaderVars, call, haystack, needle,
                   char_table, offset_table>>

SearchNext == SearchStart \/ SearchOuter \/ SearchCompare

SpecSearch == SearchInit /\ [][SearchNext]_vars

\* the interpreter runs the loop for as long as it has a step to take
SpecSearchFair == SpecSearch /\ WF_vars(SearchNext)

----------------------------------------------------------------------------
\* ppdb_pt: the Portuguese filters.  Words are tuples of characters here, so
\* that the suffix tests are computed and not tabulated.

w_o == <<"o">>
w_comma == <<",">>
w_de == <<"d", "e">>
w_sol == <<"s", "o", "l">>
w_mal == <<"m", "a", "l">>
w_mai == <<"m", "a", "i">>
w_gato == <<"g", "a", "t", "o">>
w_gata == <<"g", "a", "t", "a">>
w_gatos == <<"g", "a", "t", "o", "s">>

\* word[-n:] and word[:-n]
LastChars(word, n) ==
    SubSeq(word, IF Len(word) > n THEN Len(word) - n + 1 ELSE 1, Len(word))
DropChars(word, n) ==
    IF Len(word) > n THEN SubSeq(word, 1, Len(word) - n) ELSE <<>>

strip_suffix(word) ==
    IF LastChars(word, 2) = <<"o", "s">> \/ LastChars(word, 2) = <<"a", "s">>
    THEN DropChars(word, 2)
    ELSE IF word[Len(word)] \in {"a", "o", "s"}
         THEN DropChars(word, 1)
         ELSE word

prepositions ==
    {<<"d", "e">>, <<"d", "a">>, <<"d", "o">>, <<"d", "a", "s">>,
     <<"d", "o", "s">>, <<"e", "m">>, <<"n", "o">>, <<"n", "a">>,
     <<"n", "o", "s">>, <<"n", "a", "s">>}

articles ==
    {<<"o">>, <<"a">>, <<"o", "s">>, <<"a", "s">>, <<"u", "m">>,
     <<"u", "m", "a">>, <<"u", "n", "s">>, <<"u", "m", "a", "s">>}

\* for w1, w2 in zip(exp1, exp2), from the pair at position n (1-based)
RECURSIVE is_trivial_loop(_, _, _)
is_trivial_loop(exp1, exp2, n) ==
    IF n > Len(exp1) \/ n > Len(exp2) THEN TRUE
    ELSE LET w1 == strip_suffix(exp1[n])
             w2 == strip_suffix(exp2[n])
         IN  IF Len(w1) = 0 \/ Len(w2) = 0
             THEN IF Len(w1) = Len(w2)
                  THEN is_trivial_loop(exp1, exp2, n + 1)
                  ELSE FALSE
             ELSE IF /\ w1 # w2
                     /\ ~(/\ w1[Len(w1)] = "l"
                          /\ w2[Len(w2)] = "i"
                          /\ DropChars(w1, 1) = DropChars(w2, 1))
                  THEN FALSE
                  ELSE is_trivial_loop(exp1, exp2, n + 1)

\* _is_trivial_paraphrase; both expressions arrive non-empty
is_trivial_paraphrase(exp1, exp2) ==
    LET a1 == IF exp1[1] \in prepositions THEN Tail(exp1) ELSE exp1
        a2 == IF exp2[1] \in prepositions THEN Tail(exp2) ELSE exp2
    IN  IF Len(a1) = 0 \/ Len(a2) = 0 THEN TRUE
        ELSE
        LET b1 == IF a1[Len(a1)] \in prepositions
                  THEN SubSeq(a1, 1, Len(a1) - 1) ELSE a1
            b2 == IF a2[Len(a2)] \in prepositions
                  THEN SubSeq(a2, 1, Len(a2) - 1) ELSE a2
        IN  IF Len(b1) # Len(b2) THEN FALSE
            ELSE IF b1 = <<w_comma>> \/ b2 = <<w_comma>> THEN TRUE
            ELSE is_trivial_loop(b1, b2, 1)

\* the `while expression[0] in articles or expression[0] == ','` loop
RECURSIVE strip_leading(_)
strip_leading(expression) ==
    IF expression[1] \in articles \/ expression[1] = w_comma
    THEN IF Len(Tail(expression)) = 0 THEN <<>>
         ELSE strip_leading(Tail(expression))
    ELSE expression

remove_comma_and_article(expression) ==
    IF Len(expression) = 1 THEN Value(expression)
    ELSE IF Len(expression) = 0 THEN Raise("IndexError")
    ELSE LET e == strip_leading(expression)
         IN  IF Len(e) = 0 THEN Value(e)
             ELSE IF e[Len(e)] = w_comma
                  THEN Value(SubSeq(e, 1, Len(e) - 1))
                  ELSE Value(e)

----------------------------------------------------------------------------
\* load_ppdb and the module-level cache

\* the filter arguments: the defaults of ppdb.load_ppdb, or ppdb_pt's
FilterNames == {"default", "pt"}

apply_is_trivial(name, lhs, rhs) ==
    IF name = "pt" THEN is_trivial_paraphrase(lhs, rhs) ELSE FALSE

apply_clean_expression(name, expression) ==
    IF name = "pt" THEN remove_comma_and_article(expression)
    ELSE Value(expression)

\* one line of a rule file: whether it holds '\\ x' or 'xc3', the number of
\* fields between '|||', and the tokens of fields[1] and fields[2]
Line(lhs, rhs) == [garbled |-> FALSE, nfields |-> 6, lhs |-> lhs, rhs |-> rhs]
GarbledLine == [garbled |-> TRUE, nfields |-> 6, lhs |-> <<>>, rhs |-> <<>>]
ShortLine == [garbled |-> FALSE, nfields |-> 2, lhs |-> <<>>, rhs |-> <<>>]

TextFiles ==
    [p \in {"pt.txt", "en.txt", "bad.txt"} |->
        CASE p = "pt.txt" ->
               << Line(<<w_o, w_gato>>, <<w_gata>>),
                  GarbledLine,
                  Line(<<w_gato, w_comma, w_sol>>, <<w_sol, w_gato>>),
                  Line(<<w_comma, w_o>>, <<w_sol>>),
                  Line(<<w_de, w_gatos>>, <<w_gato, w_de>>) >>
          [] p = "en.txt" ->
               << Line(<<w_sol, w_gato, w_de, w_sol>>, <<w_gato>>),
                  Line(<<w_mal>>, <<w_mai>>),
                  Line(<<w_sol>>, <<w_mal>>) >>
          [] p = "bad.txt" ->
               << Line(<<w_gato>>, <<w_sol>>),
                  Line(<<>>, <<w_sol>>),
                  ShortLine >>]

\* what cPickle.load yields: whatever object was dumped
PickleFiles ==
    [p \in {"dump.pickle", "none.pickle"} |->
        IF p = "dump.pickle"
        THEN [kind |-> "dict",
              dict |-> add_dict(EmptyDict, <<w_sol>>, <<w_mal>>),
              index |-> EmptyIndex]
        ELSE None]

Paths == (DOMAIN TextFiles) \cup (DOMAIN PickleFiles) \cup {"missing.txt"}

\* path.endswith('.pickle'), on the paths of this model
endswith_pickle(path) == path \in {"dump.pickle", "none.pickle"}

\* the body of `for line in f`, from line n (1-based), on the dictionary
\* `transformations` = (d, ix)
RECURSIVE load_lines(_, _, _, _, _, _)
load_lines(d, ix, lines, n, is_trivial, clean_expression) ==
    IF n > Len(lines) THEN Value(<<d, ix>>)
    ELSE
    LET line == lines[n]
        skip == load_lines(d, ix, lines, n + 1, is_trivial, clean_expression)
    IN  IF line.garbled THEN skip
        ELSE IF line.nfields < 3 THEN Raise("IndexError")
        ELSE
        LET lhs == apply_clean_expression(clean_expression, line.lhs)
            rhs == apply_clean_expression(clean_expression, line.rhs)
        IN  IF lhs.kind = "raise" THEN lhs
            ELSE IF rhs.kind = "raise" THEN rhs
            ELSE IF Len(lhs.value) = 0 \/ Len(rhs.value) = 0 THEN skip
            ELSE IF apply_is_trivial(is_trivial, lhs.value, rhs.value)
                 THEN skip
            ELSE load_lines(add_dict(d, lhs.value, rhs.value),
                            add_ix(ix, lhs.value),
                            lines, n + 1, is_trivial, clean_expression)

\* variant: the cache is used when force is set
use_cache_when_forced(cached, force) == cached # None /\ force

\* `_ppdb_dict is not None and not force`
use_cache(cached, force) == cached # None /\ ~force

\* the outcome of load_ppdb: <<new _ppdb_dict, returned value or exception>>;
\* a dictionary object created by the call gets the identity `fresh`
load_ppdb(cached, path, is_trivial, clean_expression, force, fresh) ==
    IF use_cache(cached, force) THEN <<cached, Value(cached)>>
    ELSE IF endswith_pickle(path)
    THEN LET obj == PickleFiles[path]
             new == IF obj = None THEN None
                    ELSE [kind |-> "dict", id |-> fresh,
                          dict |-> obj.dict, index |-> obj.index]
         IN  <<new, Value(new)>>
    ELSE IF path \notin DOMAIN TextFiles
    THEN <<cached, Raise("IOError")>>
    ELSE LET r == load_lines(EmptyDict, EmptyIndex, TextFiles[path], 1,
                             is_trivial, clean_expression)
         IN  IF r.kind = "raise" THEN <<cached, r>>
             ELSE LET new == [kind |-> "dict", id |-> fresh,
                              dict |-> r.value[1], index |-> r.value[2]]
                  IN  <<new, Value(new)>>

LoaderInit ==
    /\ self = EmptyDict
    /\ index = EmptyIndex
    /\ added = {}
    /\ pc = "idle"
    /\ call = NoCall
    /\ ret = None
    /\ NoSearch
    /\ NoLoader

Load(op, path, is_trivial, clean_expression, force) ==
    LET out == load_ppdb(ppdb_dict, path, is_trivial, clean_expression,
                         force, nloads + 1)
    IN  /\ nloads < MaxLoads \/ out[1] = ppdb_dict
        /\ call' = [op |-> op, path |-> path, is_trivial |-> is_trivial,
                    clean_expression |-> clean_expression, force |-> force]
        /\ ppdb_dict' = out[1]
        /\ ret' = out[2]
        /\ nloads' = IF out[1] # None /\ out[1] # ppdb_dict
                     THEN nloads + 1 ELSE nloads
        /\ UNCHANGED <<dictVars, searchVars, pc>>

\* ppdb.load_ppdb(path, is_trivial, clean_expression, force)
LoadPpdb(path, is_trivial, clean_expression, force) ==
    Load("load_ppdb", path, is_trivial, clean_expression, force)

\* ppdb_pt.load_ppdb(path, force)
LoadPpdbPt(path, force) == Load("pt.load_ppdb", path, "pt", "pt", force)

LoaderNext ==
    \/ \E path \in Paths, t \in FilterNames, c \in FilterNames,
          force \in BOOLEAN : LoadPpdb(path, t, c, force)
    \/ \E path \in Paths, force \in BOOLEAN : LoadPpdbPt(path, force)

SpecLoader == LoaderInit /\ [][LoaderNext]_vars

----------------------------------------------------------------------------
\* Properties of one dictionary (specification Spec)

\* the rhs values passed to add together with lhs L
RhsAddedUnder(L) == {p[2] : p \in {q \in added : q[1] = L}}

RECURSIVE PathExists(_, _)
PathExists(d, p) ==
    \/ p = <<>>
    \/ /\ Head(p) \in DOMAIN d
       /\ PathExists(d[Head(p)][2], Tail(p))

\* C1: get_rhs(L) for a non-empty L returns exactly the set of rhs values
\* that were added with lhs equal to L (duplicates merged, adds under other
\* lhs, prefixes and extensions included, without effect on it).
C1_GetRhsExact ==
    (pc = "returned" /\ call.op = "get_rhs" /\ Len(call.arg) > 0)
        => (ret.kind = "value" /\ ret.value = RhsAddedUnder(call.arg))

\* two alternatives accumulated under one lhs and returned together
C1_Witness ==
    /\ pc = "returned" /\ call.op = "get_rhs"
    /\ ret.kind = "value" /\ ret.value = RhsSet
    /\ Len(call.arg) > 1

\* C4: get_rhs(L) on an L that was never added as an lhs returns the empty
\* set and does not raise, the empty sequence included.
C4_AbsentIsEmpty ==
    (pc = "returned" /\ call.op = "get_rhs" /\ RhsAddedUnder(call.arg) = {})
        => (ret.kind = "value" /\ ret.value = {})

ExpectedIndex(t) ==
    UNION {{<<SubSeq(p[1], 1, k - 1), SubSeq(p[1], k + 1, Len(p[1]))>> :
               k \in {m \in 2..(Len(p[1]) - 1) : p[1][m] = t}} : p \in added}

\* C7: index[t] is exactly the set of pairs (L[0:i], L[i+1:]) over the added
\* lhs L and strictly interior positions i with L[i] = t; before and after
\* are non-empty, and before + (t,) + after is a path of the trie.
C7_IndexConsistent ==
    /\ \A t \in Tokens \cup DOMAIN index :
          (IF t \in DOMAIN index THEN index[t] ELSE {}) = ExpectedIndex(t)
    /\ \A t \in DOMAIN index : \A c \in index[t] :
          /\ Len(c[1]) > 0
          /\ Len(c[2]) > 0
          /\ PathExists(self, c[1] \o <<t>> \o c[2])

\* one token indexed with two different contexts
C7_Witness ==
    \E t \in DOMAIN index : Cardinality(index[t]) >= 2

----------------------------------------------------------------------------
\* Properties of find_partial_expression (specification SpecPartial)

FindPartialReturned ==
    pc = "returned" /\ call.op = "find_partial_expression"

IndexAt(t) == IF t \in DOMAIN index THEN index[t] ELSE {}

\* number of positions of the list `list` that hold x
Count(list, x) == Cardinality({n \in 1..Len(list) : list[n] = x})

\* the dictionary reached from d along path p (p is a path of d)
RECURSIVE SubdictAt(_, _)
SubdictAt(d, p) ==
    IF p = <<>> THEN d ELSE SubdictAt(d[Head(p)][2], Tail(p))

\* the non-empty token paths leading from d to any node below it, and those
\* of them that end in a node without children
DownPaths(d) ==
    {p \in SeqsUpTo(Tokens, MaxPartialLhsLen + 1) :
        p # <<>> /\ PathExists(d, p)}
LeafPaths(d) == {p \in DownPaths(d) : DOMAIN SubdictAt(d, p) = {}}

\* the heads find_partial_expression accepts for `partial`
AcceptedHeads(partial) ==
    {c[1] : c \in {e \in IndexAt(partial[1]) : accepts(e[2], Tail(partial))}}

\* C2: for every added lhs L = before + partial + after with the three parts
\* non-empty, find_partial_expression(partial) returns a list that contains
\* the pair (before, after).
C2_FindsInterior ==
    FindPartialReturned =>
        \A p \in added : \A s \in 2..Len(p[1]) : \A e \in s..(Len(p[1]) - 1) :
            SubSeq(p[1], s, e) = call.arg =>
                /\ ret.kind = "value"
                /\ Count(ret.value, <<SubSeq(p[1], 1, s - 1),
                                      SubSeq(p[1], e + 1, Len(p[1]))>>) >= 1

----------------------------------------------------------------------------
\* Properties of search (specifications SpecSearch and SpecSearchFair)

\* needle occurs in haystack at 0-based position s
OccursAt(s) ==
    /\ s + Len(needle) <= Len(haystack)
    /\ SubSeq(haystack, s + 1, s + Len(needle)) = needle

Occurrences == {s \in 0..Len(haystack) : OccursAt(s)}

\* C3: search returns the smallest index at which needle occurs in haystack,
\* -1 when it occurs nowhere, and 0 for the empty needle.
C3_SearchLeftmost ==
    pc = "done" =>
        /\ ret.kind = "value"
        /\ IF Occurrences = {} THEN ret.value = -1
           ELSE /\ ret.value \in Occurrences
                /\ \A s \in Occurrences : ret.value <= s
        /\ Len(needle) = 0 => ret.value = 0

\* an occurrence found after at least one shift, not the first of several
C3_Witness ==
    /\ pc = "done" /\ ret.kind = "value"
    /\ ret.value > 0
    /\ Cardinality(Occurrences) >= 2
    /\ Len(needle) >= 2

\* C10: every shift is at least k + 1 after k matched symbols, so the
\* alignment (the haystack position under the needle's last symbol) moves
\* strictly right at each outer iteration; the haystack index stays >= 0;
\* and search returns after finitely many steps.
C10_SearchProgress ==
    /\ [][(pc = "inner" /\ pc' = "outer")
             => /\ i' - i >= (Len(needle) - 1 - j) + 1
                /\ i' > i + (Len(needle) - 1 - j)]_vars
    /\ [](pc \in {"outer", "inner"} => (i >= 0 /\ i - j >= 0))
    /\ <>(pc = "done" /\ ret.kind = "value")

\* a mismatch after two matched symbols is about to be shifted
C10_Witness ==
    /\ pc = "inner"
    /\ Len(needle) - 1 - j >= 2
    /\ At(needle, j) # PyAt(haystack, i)

----------------------------------------------------------------------------
\* Properties of the loader cache (specification SpecLoader)

\* C6: once _ppdb_dict holds a dictionary, a load_ppdb call with force=False
\* returns that same dictionary object and leaves it in place, whatever
\* path and filters it is given; only a call with force=True replaces it.
C6_LoaderCache ==
    [][ppdb_dict # None =>
          /\ ~call'.force => (ppdb_dict' = ppdb_dict /\ ret' = Value(ppdb_dict))
          /\ ppdb_dict' # ppdb_dict => call'.force]_vars

\* an unforced call for a file that cannot be read has returned the
\* dictionary loaded earlier
C6_Witness ==
    /\ ppdb_dict # None
    /\ call.op \in {"load_ppdb", "pt.load_ppdb"}
    /\ ~call.force
    /\ call.path = "missing.txt"
    /\ ret = Value(ppdb_dict)
    /\ DOMAIN ppdb_dict.index # {}

====
